---- MODULE Spec2Model ----
(***************************************************************************)
(* PCR thermocycler simulation: thermal plant, PID controller, fuzzy PD    *)
(* controller and the simulation orchestrator (src/thermal_model.py,       *)
(* src/pid_controller.py, src/fuzzy_controller.py, src/pcr_simulator.py).  *)
(*                                                                         *)
(* Python floats are modelled as exact rationals <<n, d>> in lowest terms  *)
(* with d > 0, so every arithmetic step of the source is computed exactly  *)
(* (floating-point rounding and overflow are outside the model).           *)
(***************************************************************************)
EXTENDS Integers, Sequences, FiniteSets, TLC

VARIABLES
    ctl,        \* the controller object (PIDController or FuzzyController)
    plant,      \* the ThermalModel object
    time_step,  \* PCRSimulator.time_step
    call,       \* the last call made on an object: its name and arguments
    ret,        \* the value the last call returned
    raised,     \* TRUE when the last call raised ZeroDivisionError / ValueError
    ncalls,     \* number of direct calls made so far
    sim,        \* the locals of a running PCRSimulator.simulate
    ds,         \* the position of the downsampling pass over a long run
    drive,      \* a saturation test in progress: its phase and counters
    other       \* the controller and simulate locals of a second, suspended run

vars == <<ctl, plant, time_step, call, ret, raised, ncalls, sim, ds, drive, other>>

---------------------------------------------------------------------------
(* Exact rational arithmetic standing for Python float arithmetic.         *)

RECURSIVE GCD(_, _)
GCD(a, b) == IF b = 0 THEN a ELSE GCD(b, a % b)

Abs(n) == IF n < 0 THEN -n ELSE n

\* n/d in lowest terms with a positive denominator (d # 0).
Q(n, d) ==
    LET g == GCD(Abs(n), Abs(d))
        s == IF d < 0 THEN -1 ELSE 1
    IN  <<(s * n) \div g, (s * d) \div g>>

I(n) == <<n, 1>>

Zero == I(0)
One == I(1)
Half == Q(1, 2)

\* x + y, x - y, x * y, over the least common denominator.
add(x, y) ==
    IF x[1] = 0 THEN y
    ELSE IF y[1] = 0 THEN x
    ELSE LET g == GCD(x[2], y[2])
         IN  Q(x[1] * (y[2] \div g) + y[1] * (x[2] \div g), (x[2] \div g) * y[2])
sub(x, y) ==
    IF y[1] = 0 THEN x
    ELSE LET g == GCD(x[2], y[2])
         IN  Q(x[1] * (y[2] \div g) - y[1] * (x[2] \div g), (x[2] \div g) * y[2])
mul(x, y) ==
    IF x[1] = 0 \/ y[1] = 0 THEN <<0, 1>>
    ELSE LET g == GCD(Abs(x[1]), y[2])
             h == GCD(Abs(y[1]), x[2])
         IN  <<(x[1] \div g) * (y[1] \div h), (x[2] \div h) * (y[2] \div g)>>
\* x / y.  Python raises ZeroDivisionError when y = 0: callers test for it
\* first, and an untested division by zero stops the evaluation (1 \div 0).
div(x, y) ==
    IF y[1] > 0 THEN mul(x, <<y[2], y[1]>>)
    ELSE IF y[1] < 0 THEN mul(x, <<-y[2], -y[1]>>)
    ELSE <<1 \div 0, 1>>
neg(x) == <<-x[1], x[2]>>

lt(x, y) ==
    LET g == GCD(x[2], y[2])
    IN  x[1] * (y[2] \div g) < y[1] * (x[2] \div g)
le(x, y) ==
    LET g == GCD(x[2], y[2])
    IN  x[1] * (y[2] \div g) <= y[1] * (x[2] \div g)
gt(x, y) == lt(y, x)
ge(x, y) == le(y, x)

\* Python's min(a, b) and max(a, b): the first argument wins a tie.
pymin(a, b) == IF lt(b, a) THEN b ELSE a
pymax(a, b) == IF gt(b, a) THEN b ELSE a

\* max(lo, min(x, hi)): the saturation both controllers apply to their output.
clamp_no_upper(x, lo, hi) == pymax(lo, x)

clamp_no_lower(x, lo, hi) == pymin(x, hi)

clamp(x, lo, hi) == pymax(lo, pymin(x, hi))

\* Python's int(x): truncation toward zero.
pyint(x) == IF x[1] >= 0 THEN x[1] \div x[2] ELSE -((-x[1]) \div x[2])

---------------------------------------------------------------------------
(* src/thermal_model.py                                                    *)

ThermalModel(heat_capacity, heating_power, cooling_power, heat_loss_coef, ambient_temp, initial_temp) ==
    [heat_capacity |-> heat_capacity, heating_power |-> heating_power,
     cooling_power |-> cooling_power, heat_loss_coef |-> heat_loss_coef,
     ambient_temp |-> ambient_temp, temperature |-> initial_temp,
     total_heat_capacity |-> heat_capacity]

calculate_heat_flow_no_loss(m, control_output) ==
    IF gt(control_output, Zero)
    THEN pymin(control_output, m.heating_power)
    ELSE pymax(control_output, neg(m.cooling_power))

calculate_heat_flow(m, control_output) ==
    LET applied_power ==
            IF gt(control_output, Zero)
            THEN pymin(control_output, m.heating_power)
            ELSE pymax(control_output, neg(m.cooling_power))
        heat_loss == mul(m.heat_loss_coef, sub(m.temperature, m.ambient_temp))
    IN  sub(applied_power, heat_loss)

get_derivative(m, control_output) ==
    div(calculate_heat_flow(m, control_output), m.total_heat_capacity)

\* ThermalModel.update: the object after the call; its temperature is returned.
Thermal_update(m, control_output, dt) ==
    [m EXCEPT !.temperature =
        add(m.temperature, mul(get_derivative(m, control_output), dt))]

\* ThermalModel.reset(initial_temp); use_ambient stands for initial_temp=None.
Thermal_reset_no_default(m, use_ambient, initial_temp) ==
    [m EXCEPT !.temperature = initial_temp]

Thermal_reset(m, use_ambient, initial_temp) ==
    [m EXCEPT !.temperature = IF use_ambient THEN m.ambient_temp ELSE initial_temp]

---------------------------------------------------------------------------
(* src/pid_controller.py                                                   *)

\* Line 96: output = kp * (p_term + i_term + d_term).
pid_output_parallel(kp, p_term, i_term, d_term) ==
    add(mul(kp, add(p_term, i_term)), d_term)

pid_output(kp, p_term, i_term, d_term) ==
    mul(kp, add(add(p_term, i_term), d_term))

PIDController(kp, ti, td, output_min, output_max) ==
    [kind |-> "pid", kp |-> kp, ti |-> ti, td |-> td,
     output_min |-> output_min, output_max |-> output_max,
     integral |-> Zero, prev_error |-> Zero, prev_derivative |-> Zero,
     p_term |-> Zero, i_term |-> Zero, d_term |-> Zero]

\* PIDController.update: [c: the object after the call, out: the returned
\* value, raised: TRUE when the call raised ZeroDivisionError at line 105
\* (then nothing is returned and prev_error keeps its old value)].
back_calculate_off(c, output, output_clamped) == c

back_calculate_integral_only(c, output, output_clamped) ==
    IF output # output_clamped /\ gt(c.ti, Zero)
    THEN LET max_i_term ==
                 sub(sub(div(output_clamped, c.kp), c.p_term), c.d_term)
         IN  [c EXCEPT !.integral = mul(max_i_term, c.ti)]
    ELSE c

\* Lines 102-107: anti-windup, the integral recomputed from the clamped output.
back_calculate(c, output, output_clamped) ==
    IF output # output_clamped /\ gt(c.ti, Zero)
    THEN LET max_i_term ==
                 sub(sub(div(output_clamped, c.kp), c.p_term), c.d_term)
         IN  [c EXCEPT !.integral = mul(max_i_term, c.ti),
                       !.i_term = max_i_term]
    ELSE c

PID_update(c, setpoint, measurement, dt) ==
    LET error == sub(setpoint, measurement)
        p_term == error
        integral == add(c.integral, mul(error, dt))
        i_term == IF gt(c.ti, Zero) THEN div(integral, c.ti) ELSE Zero
        derivative == div(sub(error, c.prev_error), dt)
        alpha == Half
        filtered_derivative ==
            add(mul(alpha, derivative), mul(sub(One, alpha), c.prev_derivative))
        d_term == IF gt(dt, Zero) THEN mul(c.td, filtered_derivative) ELSE Zero
        prev_derivative ==
            IF gt(dt, Zero) THEN filtered_derivative ELSE c.prev_derivative
        output == pid_output(c.kp, p_term, i_term, d_term)
        output_clamped == clamp(output, c.output_min, c.output_max)
        saturated == output # output_clamped /\ gt(c.ti, Zero)
        zero_div == saturated /\ c.kp = Zero
        c1 == [c EXCEPT !.p_term = p_term, !.integral = integral,
                        !.i_term = i_term, !.d_term = d_term,
                        !.prev_derivative = prev_derivative]
    IN  IF zero_div
        THEN [c |-> c1, out |-> Zero, raised |-> TRUE, raw |-> output]
        ELSE [c |-> [back_calculate(c1, output, output_clamped)
                        EXCEPT !.prev_error = error],
              out |-> output_clamped, raised |-> FALSE, raw |-> output]

PID_reset_keep_filter(c) ==
    [c EXCEPT !.integral = Zero, !.prev_error = Zero,
              !.p_term = Zero, !.i_term = Zero, !.d_term = Zero]

PID_reset(c) ==
    [c EXCEPT !.integral = Zero, !.prev_error = Zero, !.prev_derivative = Zero,
              !.p_term = Zero, !.i_term = Zero, !.d_term = Zero]

PID_get_components_swapped(c) == <<c.i_term, c.p_term, c.d_term>>

PID_get_components(c) == <<c.p_term, c.i_term, c.d_term>>

set_output_limits(c, output_min, output_max) ==
    [c EXCEPT !.output_min = output_min, !.output_max = output_max]

---------------------------------------------------------------------------
(* src/fuzzy_controller.py                                                 *)

\* A numpy array: the function given, held as a tuple of its values.
np_array(f) == SubSeq(f, 1, Len(f))

\* np.arange(-1.0, 1.0, 0.01): the 200 points -1.00, -0.99, ..., 0.99.
u_universe == np_array([i \in 1..200 |-> Q(i - 101, 100)])

FuzzyController(output_min, output_max) ==
    [kind |-> "fuzzy", output_min |-> output_min, output_max |-> output_max,
     prev_error |-> Zero]

Fuzzy_reset(c) == [c EXCEPT !.prev_error = Zero]

Fuzzy_get_components(c) == <<Zero, Zero, Zero>>

trapmf_plateau_first(x, a, b, c, d) ==
    IF le(b, x) /\ le(x, c) THEN One
    ELSE IF le(x, a) \/ ge(x, d) THEN Zero
    ELSE IF lt(a, x) /\ lt(x, b) THEN div(sub(x, a), sub(b, a))
    ELSE div(sub(d, x), sub(d, c))

\* Lines 39-47: the trapezoidal membership function.
trapmf(x, a, b, c, d) ==
    IF le(x, a) \/ ge(x, d) THEN Zero
    ELSE IF le(b, x) /\ le(x, c) THEN One
    ELSE IF lt(a, x) /\ lt(x, b) THEN div(sub(x, a), sub(b, a))
    ELSE div(sub(d, x), sub(d, c))

fuzzify_error(e) ==
    [NB |-> trapmf(e, I(-100), I(-100), I(-60), I(-40)),
     NS |-> trapmf(e, I(-60), I(-30), I(-15), I(0)),
     Z  |-> trapmf(e, I(-10), I(-2), I(2), I(10)),
     PS |-> trapmf(e, I(0), I(15), I(30), I(60)),
     PB |-> trapmf(e, I(40), I(60), I(100), I(100))]

fuzzify_ce_wide(ce) ==
    [N |-> trapmf(ce, I(-100), I(-80), I(-40), I(0)),
     Z |-> trapmf(ce, I(-10), I(-1), I(1), I(10)),
     P |-> trapmf(ce, I(0), I(40), I(80), I(200))]

fuzzify_ce(ce) ==
    [N |-> trapmf(ce, I(-100), I(-80), I(-40), I(0)),
     Z |-> trapmf(ce, I(-10), I(-1), I(1), I(10)),
     P |-> trapmf(ce, I(0), I(40), I(80), I(100))]

output_sets(u) ==
    [NB |-> trapmf(u, Q(-10, 10), Q(-10, 10), Q(-8, 10), Q(-5, 10)),
     NS |-> trapmf(u, Q(-8, 10), Q(-5, 10), Q(-2, 10), Q(0, 10)),
     Z  |-> trapmf(u, Q(-11, 100), Q(-1, 100), Q(1, 100), Q(11, 100)),
     PS |-> trapmf(u, Q(0, 10), Q(2, 10), Q(5, 10), Q(8, 10)),
     PB |-> trapmf(u, Q(5, 10), Q(8, 10), Q(10, 10), Q(10, 10))]

rules_zero_to_ps ==
    << <<"PB", "P", "PB">>, <<"PB", "Z", "PB">>, <<"PB", "N", "PS">>,
       <<"PS", "P", "PB">>, <<"PS", "Z", "PS">>, <<"PS", "N", "Z">>,
       <<"Z",  "P", "PS">>, <<"Z",  "Z", "PS">>, <<"Z",  "N", "NS">>,
       <<"NS", "P", "Z">>,  <<"NS", "Z", "NS">>, <<"NS", "N", "NB">>,
       <<"NB", "P", "NS">>, <<"NB", "Z", "NB">>, <<"NB", "N", "NB">> >>

\* The rule base: <<error label, change-of-error label, output label>>.
rules ==
    << <<"PB", "P", "PB">>, <<"PB", "Z", "PB">>, <<"PB", "N", "PS">>,
       <<"PS", "P", "PB">>, <<"PS", "Z", "PS">>, <<"PS", "N", "Z">>,
       <<"Z",  "P", "PS">>, <<"Z",  "Z", "Z">>,  <<"Z",  "N", "NS">>,
       <<"NS", "P", "Z">>,  <<"NS", "Z", "NS">>, <<"NS", "N", "NB">>,
       <<"NB", "P", "NS">>, <<"NB", "Z", "NB">>, <<"NB", "N", "NB">> >>

\* The membership of every universe point in each output set, as the list
\* comprehension of infer evaluates it for each rule.
output_table == np_array([i \in 1..200 |-> output_sets(u_universe[i])])

\* The for loop of infer from rule k on, with `aggregated` so far.
RECURSIVE infer_from(_, _, _, _)
infer_from(k, aggregated, e_sets, ce_sets) ==
    IF k > Len(rules) THEN aggregated
    ELSE LET e_label == rules[k][1]
             ce_label == rules[k][2]
             u_label == rules[k][3]
             activation == pymin(e_sets[e_label], ce_sets[ce_label])
             u_mf == np_array([i \in 1..200 |->
                                  pymin(activation, output_table[i][u_label])])
         IN  IF activation = Zero
             THEN infer_from(k + 1, aggregated, e_sets, ce_sets)
             ELSE infer_from(k + 1,
                             np_array([i \in 1..200 |->
                                          pymax(aggregated[i], u_mf[i])]),
                             e_sets, ce_sets)

infer(e_sets, ce_sets) ==
    infer_from(1, np_array([i \in 1..200 |-> Zero]), e_sets, ce_sets)

\* np.sum of entries lo..hi of an array (exact, so the order is immaterial).
RECURSIVE np_sum(_, _, _)
np_sum(a, lo, hi) ==
    IF lo > hi THEN Zero
    ELSE IF lo = hi THEN a[lo]
    ELSE LET mid == (lo + hi) \div 2
         IN  add(np_sum(a, lo, mid), np_sum(a, mid + 1, hi))

defuzzify_first_point(aggregated) ==
    LET total == np_sum(aggregated, 1, 200)
    IN  IF total = Zero THEN u_universe[1]
        ELSE div(np_sum(np_array([i \in 1..200 |->
                                     mul(u_universe[i], aggregated[i])]), 1, 200),
                 total)

defuzzify(aggregated) ==
    LET total == np_sum(aggregated, 1, 200)
    IN  IF total = Zero THEN Zero
        ELSE div(np_sum(np_array([i \in 1..200 |->
                                     mul(u_universe[i], aggregated[i])]), 1, 200),
                 total)

Fuzzy_update_any_dt(c, setpoint, measurement, dt) ==
    LET error == sub(setpoint, measurement)
        ce == IF dt # Zero THEN div(sub(error, c.prev_error), dt) ELSE Zero
        e_sets == fuzzify_error(error)
        ce_sets == fuzzify_ce(ce)
        aggregated == infer(e_sets, ce_sets)
        u_norm == defuzzify(aggregated)
        u == mul(u_norm, c.output_max)
        u_sat == clamp(u, c.output_min, c.output_max)
    IN  [c |-> [c EXCEPT !.prev_error = error], out |-> u_sat, raised |-> FALSE,
         raw |-> u]

\* FuzzyController.update: [c: the object after the call, out: the returned
\* value, raised: FALSE (no statement of update can raise on finite input)].
Fuzzy_update(c, setpoint, measurement, dt) ==
    LET error == sub(setpoint, measurement)
        ce == IF gt(dt, Zero) THEN div(sub(error, c.prev_error), dt) ELSE Zero
        e_sets == fuzzify_error(error)
        ce_sets == fuzzify_ce(ce)
        aggregated == infer(e_sets, ce_sets)
        u_norm == defuzzify(aggregated)
        u == mul(u_norm, c.output_max)
        u_sat == clamp(u, c.output_min, c.output_max)
    IN  [c |-> [c EXCEPT !.prev_error = error], out |-> u_sat, raised |-> FALSE,
         raw |-> u]

\* The common contract of the two controllers (duck typing in simulate).
Ctl_update(c, setpoint, measurement, dt) ==
    IF c.kind = "pid" THEN PID_update(c, setpoint, measurement, dt)
    ELSE Fuzzy_update(c, setpoint, measurement, dt)

Ctl_reset_skip(c) == c

Ctl_reset(c) == IF c.kind = "pid" THEN PID_reset(c) ELSE Fuzzy_reset(c)

Ctl_get_components(c) ==
    IF c.kind = "pid" THEN PID_get_components(c) ELSE Fuzzy_get_components(c)

---------------------------------------------------------------------------
(* src/pcr_simulator.py                                                    *)

DOWNSAMPLE_THRESHOLD == 5000

\* num_cycles repetitions of the (denat, anneal, extension) triple.
RECURSIVE cycle_stages(_, _)
cycle_stages(p, n) ==
    IF n <= 0 THEN <<>>
    ELSE << <<p.denat_temp, p.denat_duration>>,
            <<p.anneal_temp, p.anneal_duration>>,
            <<p.extension_temp, p.extension_duration>> >>
         \o cycle_stages(p, n - 1)

\* The list of <<temperature, duration>> stages.
_build_protocol_hold_first(p) ==
    << <<p.initial_temp, p.initial_duration>> >>
    \o cycle_stages(p, p.num_cycles)
    \o << <<p.hold_temp, p.hold_duration>> >>
    \o << <<p.final_temp, p.final_duration>> >>

_build_protocol(p) ==
    << <<p.initial_temp, p.initial_duration>> >>
    \o cycle_stages(p, p.num_cycles)
    \o << <<p.final_temp, p.final_duration>> >>
    \o << <<p.hold_temp, p.hold_duration>> >>

\* sum(duration for _, duration in protocol) over the first k stages.
RECURSIVE sum_durations(_, _)
sum_durations(protocol, k) ==
    IF k = 0 THEN Zero ELSE add(sum_durations(protocol, k - 1), protocol[k][2])

\* np.linspace(start, stop, num, dtype=int)[k] for k in 0..num-1: the float
\* start + k*(stop-start)/(num-1), converted to int by truncation.
linspace_int_round(start, stop, num, k) ==
    pyint(add(add(I(start), mul(I(k), div(I(stop - start), I(num - 1)))), Half))

linspace_int_no_endpoint(start, stop, num, k) ==
    pyint(add(I(start), mul(I(k), div(I(stop - start), I(num)))))

linspace_int(start, stop, num, k) ==
    pyint(add(I(start), mul(I(k), div(I(stop - start), I(num - 1)))))

\* data[indices]: arrays are 1-based here, Python indices 0-based.
_downsample(data, max_points) ==
    IF Len(data) <= max_points THEN data
    ELSE np_array([k \in 1..max_points |->
                     data[linspace_int(0, Len(data) - 1, max_points, k - 1) + 1]])

np_zeros(n) == np_array([i \in 1..n |-> Zero])

SeriesNames ==
    {"time", "temperature", "setpoint", "control", "error",
     "p_term", "i_term", "d_term"}

---------------------------------------------------------------------------
(* Bounds and input sets.                                                  *)

\* Direct calls made on an object in one behaviour.
MaxCalls == 2

KpSet == {I(0), I(2)}
TiSet == {I(0), I(2)}
TdSet == {I(0), I(1)}

\* <<output_min, output_max>>: around zero, above zero, and inverted.
LimitSet == {<<I(-2), I(3)>>, <<I(1), I(3)>>, <<I(3), I(1)>>}

DtSet == {I(0), I(1), Q(1, 2)}

PIDControllers ==
    {PIDController(kp, ti, td, l[1], l[2]) :
        kp \in KpSet, ti \in TiSet, td \in TdSet, l \in LimitSet}

FuzzyControllers == {FuzzyController(l[1], l[2]) : l \in LimitSet}

\* Setpoints and measurements on the scale each controller works at.
SetpointSet(c) == IF c.kind = "pid" THEN {I(0), I(4)} ELSE {I(0), I(30), I(120)}
MeasurementSet(c) == IF c.kind = "pid" THEN {I(0), I(1)} ELSE {I(0), I(25)}

\* Largest num_cycles passed to simulate.
MaxCycles == 1

\* Protocol parameters: whole-step durations, durations that are no multiple
\* of the time step, and malformed (zero and negative) durations.
Protocol(t, n, d_init, d_denat, d_anneal, d_ext, d_final, d_hold) ==
    [initial_temp |-> I(t[1]), initial_duration |-> d_init,
     denat_temp |-> I(t[2]), denat_duration |-> d_denat,
     anneal_temp |-> I(t[3]), anneal_duration |-> d_anneal,
     extension_temp |-> I(t[4]), extension_duration |-> d_ext,
     num_cycles |-> n,
     final_temp |-> I(t[5]), final_duration |-> d_final,
     hold_temp |-> I(t[6]), hold_duration |-> d_hold]

\* Stage temperatures on the scale each controller works at.
StageTemps(c) ==
    IF c.kind = "pid" THEN <<9, 8, 4, 6, 5, 1>> ELSE <<78, 32, 79, 30, 80, 200>>

ProtocolSet(c) ==
    LET t == StageTemps(c)
    IN  {Protocol(t, n, I(2), I(1), I(1), I(1), I(1), I(1)) : n \in 0..MaxCycles}
        \cup {Protocol(t, n, Q(3, 2), Q(1, 2), I(1), Q(3, 2), Q(1, 2), Q(3, 2)) :
                n \in 0..MaxCycles}
        \cup {Protocol(t, n, I(1), I(0), I(1), I(-1), I(1), I(1)) :
                n \in 0..MaxCycles}
        \cup {Protocol(t, 0, I(-2), I(1), I(1), I(1), I(-1), I(1)),
              Protocol(t, 0, I(1), I(1), I(1), I(1), I(-2), Q(1, 2))}

\* The plant each controller is paired with.
PlantFor(c) ==
    IF c.kind = "pid" THEN ThermalModel(I(1), I(3), I(2), I(1), I(2), I(2))
    ELSE ThermalModel(I(1), I(1), I(1), I(0), I(2), I(2))

TimeStepSet == {I(1), Q(1, 2)}

NoCall == [op |-> "none"]
NoSim == [pc |-> "idle"]
NoDs == [pc |-> "idle"]
NoDrive == [pc |-> "idle"]
NoOther == [ctl |-> <<>>, sim |-> NoSim]

---------------------------------------------------------------------------
(* Direct calls on the controller.                                         *)

Init ==
    /\ ctl \in PIDControllers \cup FuzzyControllers
    /\ plant = PlantFor(ctl)
    /\ time_step = One
    /\ call = NoCall
    /\ ret = Zero
    /\ raised = FALSE
    /\ ncalls = 0
    /\ sim = NoSim
    /\ ds = NoDs
    /\ drive = NoDrive
    /\ other = NoOther

CallUpdate ==
    /\ sim.pc = "idle"
    /\ ncalls < MaxCalls
    /\ \E setpoint \in SetpointSet(ctl), measurement \in MeasurementSet(ctl),
          dt \in DtSet :
          \E r \in {Ctl_update(ctl, setpoint, measurement, dt)} :
              /\ ctl' = r.c
              /\ ret' = r.out
              /\ raised' = r.raised
              /\ call' = [op |-> "update", setpoint |-> setpoint,
                          measurement |-> measurement, dt |-> dt, before |-> ctl]
    /\ ncalls' = ncalls + 1
    /\ UNCHANGED <<plant, time_step, sim, ds, drive, other>>

CallReset ==
    /\ sim.pc = "idle"
    /\ ncalls < MaxCalls
    /\ ctl' = Ctl_reset(ctl)
    /\ ret' = Zero
    /\ raised' = FALSE
    /\ call' = [op |-> "reset", before |-> ctl]
    /\ ncalls' = ncalls + 1
    /\ UNCHANGED <<plant, time_step, sim, ds, drive, other>>

CallSetOutputLimits ==
    /\ sim.pc = "idle"
    /\ ncalls < MaxCalls
    /\ ctl.kind = "pid"
    /\ \E l \in LimitSet :
          /\ ctl' = set_output_limits(ctl, l[1], l[2])
          /\ call' = [op |-> "set_output_limits", output_min |-> l[1],
                      output_max |-> l[2], before |-> ctl]
    /\ ret' = Zero
    /\ raised' = FALSE
    /\ ncalls' = ncalls + 1
    /\ UNCHANGED <<plant, time_step, sim, ds, drive, other>>

---------------------------------------------------------------------------
(* PCRSimulator.simulate, one action per step of its control flow.         *)

\* PCRSimulator(plant, controller, time_step).simulate(...), lines 147-178:
\* build the protocol, size and allocate the arrays, reset plant and
\* controller.  np.zeros raises ValueError for a negative size.  No direct
\* call follows a simulate in one behaviour, so the call budget is spent.
\* run and first are bookkeeping: which call of simulate on this simulator
\* this is, and the series the first call returned.
SimSetup(p, ts, run, first) ==
    LET protocol == _build_protocol(p)
        total_time == sum_durations(protocol, Len(protocol))
        num_steps == pyint(div(total_time, ts)) + 1
    IN  /\ call' = [op |-> "simulate", params |-> p]
        /\ time_step' = ts
        /\ IF num_steps < 0
           THEN /\ sim' = [pc |-> "value_error", protocol |-> protocol,
                           total_time |-> total_time,
                           num_steps |-> num_steps,
                           run |-> run, first |-> first]
                /\ raised' = TRUE
                /\ UNCHANGED <<ctl, plant>>
           ELSE /\ sim' = [pc |-> "for", protocol |-> protocol,
                           total_time |-> total_time,
                           num_steps |-> num_steps,
                           series |-> [s \in SeriesNames |->
                                          np_zeros(num_steps)],
                           current_time |-> Zero, step |-> 0,
                           k |-> 1, stage_temp |-> Zero,
                           stage_end_time |-> Zero, iterations |-> 0,
                           raw |-> <<>>,
                           run |-> run, first |-> first]
                /\ raised' = FALSE
                /\ plant' = Thermal_reset(plant, TRUE, Zero)
                /\ ctl' = Ctl_reset(ctl)

SimStart ==
    /\ sim.pc = "idle"
    /\ ncalls < MaxCalls
    /\ \E p \in ProtocolSet(ctl), ts \in TimeStepSet : SimSetup(p, ts, 1, <<>>)
    /\ ret' = Zero
    /\ ncalls' = MaxCalls
    /\ UNCHANGED <<ds, drive, other>>

SimEnterStage_restart ==
    /\ sim.pc = "for"
    /\ sim.k <= Len(sim.protocol)
    /\ sim' = [sim EXCEPT !.pc = "while",
                          !.stage_temp = sim.protocol[sim.k][1],
                          !.current_time = Zero,
                          !.stage_end_time = sim.protocol[sim.k][2]]
    /\ UNCHANGED <<ctl, plant, time_step, call, ret, raised, ncalls, ds, drive, other>>

\* Lines 181-182: the for loop takes the next stage.
SimEnterStage ==
    /\ sim.pc = "for"
    /\ sim.k <= Len(sim.protocol)
    /\ sim' = [sim EXCEPT !.pc = "while",
                          !.stage_temp = sim.protocol[sim.k][1],
                          !.stage_end_time =
                              add(sim.current_time, sim.protocol[sim.k][2])]
    /\ UNCHANGED <<ctl, plant, time_step, call, ret, raised, ncalls, ds, drive, other>>

\* Line 184: the loop condition.
SimLoopCond == lt(sim.current_time, sim.stage_end_time) /\ sim.step < sim.num_steps

\* Lines 185-209: one iteration of the while loop.
SimStep ==
    /\ sim.pc = "while"
    /\ SimLoopCond
    /\ LET current_temp == plant.temperature
       IN  \E r \in {Ctl_update(ctl, sim.stage_temp, current_temp, time_step)} :
             /\ ctl' = r.c
             /\ IF r.raised
                THEN /\ sim' = [sim EXCEPT !.pc = "zero_division"]
                     /\ raised' = TRUE
                     /\ UNCHANGED plant
                ELSE LET comps == Ctl_get_components(r.c)
                         i == sim.step + 1
                     IN  /\ plant' = Thermal_update(plant, r.out, time_step)
                         /\ sim' = [sim EXCEPT
                               !.series["time"][i] = sim.current_time,
                               !.series["temperature"][i] = current_temp,
                               !.series["setpoint"][i] = sim.stage_temp,
                               !.series["control"][i] = r.out,
                               !.series["error"][i] =
                                   sub(sim.stage_temp, current_temp),
                               !.series["p_term"][i] = comps[1],
                               !.series["i_term"][i] = comps[2],
                               !.series["d_term"][i] = comps[3],
                               !.current_time = add(sim.current_time, time_step),
                               !.step = sim.step + 1,
                               !.iterations = sim.iterations + 1]
                         /\ UNCHANGED raised
    /\ UNCHANGED <<time_step, call, ret, ncalls, ds, drive, other>>

\* The while loop ends; back to the for loop.
SimLeaveStage ==
    /\ sim.pc = "while"
    /\ ~SimLoopCond
    /\ sim' = [sim EXCEPT !.pc = "for", !.k = sim.k + 1]
    /\ UNCHANGED <<ctl, plant, time_step, call, ret, raised, ncalls, ds, drive, other>>

SimFinish_no_trim ==
    /\ sim.pc = "for"
    /\ sim.k > Len(sim.protocol)
    /\ sim' = [sim EXCEPT !.pc = "done", !.raw = sim.series]
    /\ UNCHANGED <<ctl, plant, time_step, call, ret, raised, ncalls, ds, drive, other>>

\* Lines 211-241: trim to the recorded length, downsample, return.
SimFinish ==
    /\ sim.pc = "for"
    /\ sim.k > Len(sim.protocol)
    /\ LET trimmed == [s \in SeriesNames |-> SubSeq(sim.series[s], 1, sim.step)]
       IN  sim' = [sim EXCEPT
                     !.pc = "done",
                     !.raw = trimmed,
                     !.series =
                        IF Len(trimmed["time"]) > DOWNSAMPLE_THRESHOLD
                        THEN [s \in SeriesNames |->
                                _downsample(trimmed[s], DOWNSAMPLE_THRESHOLD)]
                        ELSE trimmed]
    /\ UNCHANGED <<ctl, plant, time_step, call, ret, raised, ncalls, ds, drive, other>>

\* simulate is called a second time on the same simulator, same arguments.
SimAgain ==
    /\ sim.pc = "done"
    /\ sim.run = 1
    /\ SimSetup(call.params, time_step, 2, sim.series)
    /\ UNCHANGED <<ret, ncalls, ds, drive, other>>

SimNext == SimStart \/ SimEnterStage \/ SimStep \/ SimLeaveStage \/ SimFinish

Next == CallUpdate \/ CallReset \/ CallSetOutputLimits \/ SimNext

Spec == Init /\ [][Next]_vars

---------------------------------------------------------------------------
(* Direct calls on the plant.                                              *)

PlantSet ==
    {ThermalModel(I(1), I(3), I(2), I(1), I(2), I(2)),
     ThermalModel(I(2), I(1), I(1), I(0), I(2), I(5)),
     ThermalModel(I(4), I(2), I(3), Q(3, 2), I(20), I(20))}

PowerSet == {I(0), I(1), I(5), I(-1), I(-5)}
PlantDtSet == {I(0), I(1), Q(1, 2), I(-1)}
ResetTempSet == {I(0), I(7)}

PlantInit ==
    /\ ctl = PIDController(I(2), I(1), I(1), I(-2), I(3))
    /\ plant \in PlantSet
    /\ time_step = One
    /\ call = NoCall
    /\ ret = Zero
    /\ raised = FALSE
    /\ ncalls = 0
    /\ sim = NoSim
    /\ ds = NoDs
    /\ drive = NoDrive
    /\ other = NoOther

PlantUpdate ==
    /\ ncalls < MaxCalls
    /\ \E control_output \in PowerSet, dt \in PlantDtSet :
          /\ plant' = Thermal_update(plant, control_output, dt)
          /\ call' = [op |-> "plant_update", control_output |-> control_output,
                      dt |-> dt, before |-> plant]
    /\ ret' = plant'.temperature
    /\ ncalls' = ncalls + 1
    /\ UNCHANGED <<ctl, time_step, raised, sim, ds, drive, other>>

PlantReset ==
    /\ ncalls < MaxCalls
    /\ \E use_ambient \in BOOLEAN, initial_temp \in ResetTempSet :
          /\ plant' = Thermal_reset(plant, use_ambient, initial_temp)
          /\ call' = [op |-> "plant_reset", use_ambient |-> use_ambient,
                      initial_temp |-> initial_temp, before |-> plant]
    /\ ret' = Zero
    /\ ncalls' = ncalls + 1
    /\ UNCHANGED <<ctl, time_step, raised, sim, ds, drive, other>>

PlantNext == PlantUpdate \/ PlantReset

SpecPlant == PlantInit /\ [][PlantNext]_vars

---------------------------------------------------------------------------
(* Downsampling of a long run, one output position at a time.              *)

MaxExtraLen == 1

\* Raw lengths below, at and above the threshold.
RawLenSet ==
    {DOWNSAMPLE_THRESHOLD - 1, DOWNSAMPLE_THRESHOLD}
    \cup (DOWNSAMPLE_THRESHOLD + 1)..(DOWNSAMPLE_THRESHOLD + 1 + MaxExtraLen)
    \cup {(3 * DOWNSAMPLE_THRESHOLD) \div 2, 2 * DOWNSAMPLE_THRESHOLD - 1,
          2 * DOWNSAMPLE_THRESHOLD}

\* The entry at 0-based position i of the raw series s.
RawSample(s, i) == <<s, i>>

DownInit ==
    /\ ctl = PIDController(I(2), I(1), I(1), I(-2), I(3))
    /\ plant = PlantFor(ctl)
    /\ time_step = One
    /\ call = NoCall
    /\ ret = Zero
    /\ raised = FALSE
    /\ ncalls = 0
    /\ sim = NoSim
    /\ ds = NoDs
    /\ drive = NoDrive
    /\ other = NoOther

\* Line 222 (and line 95): only a run longer than the threshold is resampled.
DsStart ==
    /\ ds.pc = "idle"
    /\ \E len \in RawLenSet :
          ds' = IF len > DOWNSAMPLE_THRESHOLD
                THEN [pc |-> "pick", len |-> len, k |-> 0, index |-> 0,
                      sample |-> [s \in SeriesNames |-> RawSample(s, 0)],
                      out_len |-> 0]
                ELSE [pc |-> "done", len |-> len, k |-> 0, index |-> 0,
                      sample |-> [s \in SeriesNames |-> RawSample(s, 0)],
                      out_len |-> len]
    /\ UNCHANGED <<ctl, plant, time_step, call, ret, raised, ncalls, sim, drive, other>>

\* Lines 99-100 and 223-230: output position k of every series is the raw
\* entry at the k-th index of the integer linspace.
DsPick ==
    /\ ds.pc = "pick"
    /\ ds.k < DOWNSAMPLE_THRESHOLD
    /\ \E index \in {linspace_int(0, ds.len - 1, DOWNSAMPLE_THRESHOLD, ds.k)} :
          ds' = [ds EXCEPT !.k = ds.k + 1,
                           !.index = index,
                           !.sample = [s \in SeriesNames |-> RawSample(s, index)]]
    /\ UNCHANGED <<ctl, plant, time_step, call, ret, raised, ncalls, sim, drive, other>>

\* Lines 232-241: the resampled series are returned.
DsReturn ==
    /\ ds.pc = "pick"
    /\ ds.k = DOWNSAMPLE_THRESHOLD
    /\ ds' = [ds EXCEPT !.pc = "done", !.out_len = ds.k]
    /\ UNCHANGED <<ctl, plant, time_step, call, ret, raised, ncalls, sim, drive, other>>

DownNext == DsStart \/ DsPick \/ DsReturn

SpecDown == DownInit /\ [][DownNext]_vars

---------------------------------------------------------------------------
(* The sustained-saturation test: a PID controller is driven towards a     *)
(* setpoint far above the measurement, then the setpoint is switched to    *)
(* (or just below) the measurement and held.                               *)

MaxDrive == 4
MaxRelease == 2

WindupControllers ==
    {PIDController(kp, ti, td, I(-2), I(3)) :
        kp \in {I(1), I(2)}, ti \in {I(1), Q(1, 8)}, td \in {I(0), I(2)}}

DriveSetpoint == I(8)
DriveMeasurements == {I(0), I(4), I(7)}
DriveDtSet == {I(1), Q(1, 2)}
ReleaseOffsets == {I(0), I(-1)}

WindupInit ==
    /\ ctl \in WindupControllers
    /\ plant = PlantFor(ctl)
    /\ time_step = One
    /\ call = NoCall
    /\ ret = Zero
    /\ raised = FALSE
    /\ ncalls = 0
    /\ sim = NoSim
    /\ ds = NoDs
    /\ drive = [pc |-> "saturate", n |-> 0, m |-> 0, steady |-> TRUE,
                since |-> 0, below |-> FALSE, at_max |-> FALSE]
    /\ other = NoOther

\* An update during the saturating phase. n counts the updates since
\* construction, m the latest consecutive ones clamped at output_max; steady
\* records that all of them were clamped at one and the same measurement.
DriveSaturate ==
    /\ drive.pc = "saturate"
    /\ drive.n < MaxDrive
    /\ \E measurement \in DriveMeasurements, dt \in DriveDtSet :
          \E r \in {PID_update(ctl, DriveSetpoint, measurement, dt)} :
             LET at_max == gt(r.raw, ctl.output_max)
             IN  /\ ctl' = r.c
                 /\ ret' = r.out
                 /\ raised' = r.raised
                 /\ call' = [op |-> "update", setpoint |-> DriveSetpoint,
                             measurement |-> measurement, dt |-> dt,
                             before |-> ctl]
                 /\ drive' = [drive EXCEPT
                        !.n = drive.n + 1,
                        !.m = IF at_max THEN drive.m + 1 ELSE 0,
                        !.steady = /\ drive.steady
                                   /\ at_max
                                   /\ drive.n > 0 => measurement = call.measurement,
                        !.at_max = at_max]
    /\ ncalls' = ncalls + 1
    /\ UNCHANGED <<plant, time_step, sim, ds, other>>

\* After m >= 1 clamped updates the setpoint is switched to the measurement
\* plus an offset; this is the first update with the new setpoint.
DriveSwitch ==
    /\ drive.pc = "saturate"
    /\ drive.m >= 1
    /\ \E offset \in ReleaseOffsets, dt \in DriveDtSet :
          LET measurement == call.measurement
              setpoint == add(measurement, offset)
          IN  \E r \in {PID_update(ctl, setpoint, measurement, dt)} :
                 /\ ctl' = r.c
                 /\ ret' = r.out
                 /\ raised' = r.raised
                 /\ call' = [op |-> "update", setpoint |-> setpoint,
                             measurement |-> measurement, dt |-> dt,
                             before |-> ctl]
                 /\ drive' = [drive EXCEPT
                        !.pc = "release",
                        !.since = 1,
                        !.below = lt(r.out, ctl.output_max),
                        !.at_max = gt(r.raw, ctl.output_max)]
    /\ ncalls' = ncalls + 1
    /\ UNCHANGED <<plant, time_step, sim, ds, other>>

\* Further updates with the switched setpoint and the same measurement.
DriveHold ==
    /\ drive.pc = "release"
    /\ drive.since < MaxRelease
    /\ \E dt \in DriveDtSet :
          \E r \in {PID_update(ctl, call.setpoint, call.measurement, dt)} :
             /\ ctl' = r.c
             /\ ret' = r.out
             /\ raised' = r.raised
             /\ call' = [call EXCEPT !.dt = dt, !.before = ctl]
             /\ drive' = [drive EXCEPT
                    !.since = drive.since + 1,
                    !.below = drive.below \/ lt(r.out, ctl.output_max),
                    !.at_max = gt(r.raw, ctl.output_max)]
    /\ ncalls' = ncalls + 1
    /\ UNCHANGED <<plant, time_step, sim, ds, other>>

WindupNext == DriveSaturate \/ DriveSwitch \/ DriveHold

SpecWindup == WindupInit /\ [][WindupNext]_vars

---------------------------------------------------------------------------
(* simulate called twice on one simulator, after earlier activity on its   *)
(* plant and controller.                                                   *)

RerunControllers ==
    {PIDController(I(2), I(1), I(1), I(-2), I(3)),
     PIDController(I(2), I(0), I(1), I(-2), I(3)),
     FuzzyController(I(-2), I(3))}

RerunInit ==
    /\ ctl \in RerunControllers
    /\ plant = PlantFor(ctl)
    /\ time_step = One
    /\ call = NoCall
    /\ ret = Zero
    /\ raised = FALSE
    /\ ncalls = 0
    /\ sim = NoSim
    /\ ds = NoDs
    /\ drive = NoDrive
    /\ other = NoOther

\* Earlier activity: one controller update applied to the plant.
RerunPrior ==
    /\ sim.pc = "idle"
    /\ ncalls = 0
    /\ \E setpoint \in SetpointSet(ctl), measurement \in MeasurementSet(ctl) :
          \E r \in {Ctl_update(ctl, setpoint, measurement, time_step)} :
              /\ ctl' = r.c
              /\ plant' = Thermal_update(plant, r.out, time_step)
              /\ ret' = r.out
              /\ raised' = r.raised
              /\ call' = [op |-> "update", setpoint |-> setpoint,
                          measurement |-> measurement, dt |-> time_step,
                          before |-> ctl]
    /\ ncalls' = 1
    /\ UNCHANGED <<time_step, sim, ds, drive, other>>

RerunNext ==
    \/ RerunPrior
    \/ SimStart
    \/ SimEnterStage
    \/ SimStep
    \/ SimLeaveStage
    \/ SimFinish
    \/ SimAgain

SpecRerun == RerunInit /\ [][RerunNext]_vars

---------------------------------------------------------------------------
(* A PID run and a fuzzy run on the same protocol, built as run_simulation *)
(* builds them: two simulators around one ThermalModel object.  The runs   *)
(* are interleaved step by step; ctl and sim belong to the run that is     *)
(* executing, other holds the suspended one.                               *)

PairPlant == ThermalModel(I(1), I(1), I(1), I(0), I(2), I(2))

PairProtocolSet ==
    {Protocol(<<78, 32, 79, 30, 80, 200>>, 0, I(1), I(1), I(1), I(1), I(1), I(1)),
     Protocol(<<78, 32, 79, 30, 80, 200>>, 0, I(2), I(1), I(1), I(1), I(1), I(2))}

PairInit ==
    /\ ctl = PIDController(I(2), I(1), I(1), I(-2), I(3))
    /\ plant = PairPlant
    /\ time_step = One
    /\ call = NoCall
    /\ ret = Zero
    /\ raised = FALSE
    /\ ncalls = 0
    /\ sim = NoSim
    /\ ds = NoDs
    /\ drive = NoDrive
    /\ other = [ctl |-> FuzzyController(I(-2), I(3)), sim |-> NoSim]

\* main.py lines 510-537: simulate is called on each simulator with the same
\* protocol arguments.
PairStart ==
    /\ sim.pc = "idle"
    /\ \E p \in IF other.sim.pc = "idle" THEN PairProtocolSet ELSE {call.params} :
          SimSetup(p, time_step, 1, <<>>)
    /\ UNCHANGED <<ret, ncalls, ds, drive, other>>

\* The scheduler suspends the executing run and resumes the other one.
PairSwitch ==
    /\ ctl' = other.ctl
    /\ sim' = other.sim
    /\ other' = [ctl |-> ctl, sim |-> sim]
    /\ UNCHANGED <<plant, time_step, call, ret, raised, ncalls, ds, drive>>

PairNext ==
    \/ PairStart
    \/ PairSwitch
    \/ SimEnterStage
    \/ SimStep
    \/ SimLeaveStage
    \/ SimFinish

SpecPair == PairInit /\ [][PairNext]_vars

---------------------------------------------------------------------------
(* Direct update calls with time steps that are zero or negative.          *)

\* Largest number of update calls in a row.
MaxDtCalls == 2

DtControllers ==
    {PIDController(I(2), I(2), I(1), I(-2), I(3)),
     PIDController(I(2), I(0), I(1), I(1), I(3)),
     FuzzyController(I(-2), I(3))}

AnyDtSet == {I(-1), Q(-1, 2), I(0), I(1)}

DtInit ==
    /\ ctl \in DtControllers
    /\ plant = PlantFor(ctl)
    /\ time_step = One
    /\ call = NoCall
    /\ ret = Zero
    /\ raised = FALSE
    /\ ncalls = 0
    /\ sim = NoSim
    /\ ds = NoDs
    /\ drive = NoDrive
    /\ other = NoOther

DtUpdate ==
    /\ ncalls < MaxDtCalls
    /\ \E setpoint \in SetpointSet(ctl), measurement \in MeasurementSet(ctl),
          dt \in AnyDtSet :
          \E r \in {Ctl_update(ctl, setpoint, measurement, dt)} :
              /\ ctl' = r.c
              /\ ret' = r.out
              /\ raised' = r.raised
              /\ call' = [op |-> "update", setpoint |-> setpoint,
                          measurement |-> measurement, dt |-> dt, before |-> ctl]
    /\ ncalls' = ncalls + 1
    /\ UNCHANGED <<plant, time_step, sim, ds, drive, other>>

DtNext == DtUpdate

SpecDt == DtInit /\ [][DtNext]_vars

---------------------------------------------------------------------------
(* Direct calls of the static method FuzzyController.trapmf.               *)

\* Corner coordinates of the generated trapezoids range over -TrapMax..TrapMax.
TrapMax == 2

\* Trapezoids <<a, b, c, d>> with a <= b <= c <= d: every one on the small
\* grid, and the eight input sets the controller itself uses.
TrapGrid == {I(n) : n \in -TrapMax..TrapMax}

TrapShapes ==
    {t \in TrapGrid \X TrapGrid \X TrapGrid \X TrapGrid :
        le(t[1], t[2]) /\ le(t[2], t[3]) /\ le(t[3], t[4])}

ControllerShapes ==
    {<<I(-100), I(-100), I(-60), I(-40)>>, <<I(-60), I(-30), I(-15), I(0)>>,
     <<I(-10), I(-2), I(2), I(10)>>, <<I(0), I(15), I(30), I(60)>>,
     <<I(40), I(60), I(100), I(100)>>, <<I(-100), I(-80), I(-40), I(0)>>,
     <<I(-10), I(-1), I(1), I(10)>>, <<I(0), I(40), I(80), I(100)>>}

\* Arguments x for a trapezoid: its corners, the midpoints of its three
\* segments, and a point on either side of it.
TrapPoints(t) ==
    {t[1], t[2], t[3], t[4],
     mul(Half, add(t[1], t[2])), mul(Half, add(t[2], t[3])),
     mul(Half, add(t[3], t[4])), sub(t[1], One), add(t[4], One)}

TrapInit ==
    /\ ctl = FuzzyController(I(-2), I(3))
    /\ plant = PlantFor(ctl)
    /\ time_step = One
    /\ call = NoCall
    /\ ret = Zero
    /\ raised = FALSE
    /\ ncalls = 0
    /\ sim = NoSim
    /\ ds = NoDs
    /\ drive = NoDrive
    /\ other = NoOther

TrapCall ==
    /\ \E t \in TrapShapes \cup ControllerShapes :
          \E x \in TrapPoints(t) :
              /\ call' = [op |-> "trapmf", x |-> x,
                          a |-> t[1], b |-> t[2], c |-> t[3], d |-> t[4]]
              /\ ret' = trapmf(x, t[1], t[2], t[3], t[4])
    /\ UNCHANGED <<ctl, plant, time_step, raised, ncalls, sim, ds, drive, other>>

TrapNext == TrapCall

SpecTrap == TrapInit /\ [][TrapNext]_vars

---------------------------------------------------------------------------
(* Properties.                                                             *)

IsUpdate == call.op = "update"
LimitsOrdered(c) == le(c.output_min, c.output_max)
LimitsAroundZero(c) == le(c.output_min, Zero) /\ le(Zero, c.output_max)
InLimits(x, c) == le(c.output_min, x) /\ le(x, c.output_max)

\* simulate is in or past its loop: the arrays exist.
SimRecording == sim.pc \in {"for", "while", "zero_division", "done"}
\* The raw (pre-downsample) series recorded so far, and their length.
RawLen == IF sim.pc = "done" THEN Len(sim.raw["time"]) ELSE sim.step
Raw(s) == IF sim.pc = "done" THEN sim.raw[s] ELSE sim.series[s]

\* C1: a value returned by update lies in [output_min, output_max] whenever
\* output_min <= output_max, for the PID and the fuzzy controller alike, and
\* so does every entry of the control series simulate records and returns.
C1_OutputWithinLimits ==
    /\ (IsUpdate /\ ~raised /\ LimitsOrdered(ctl)) => InLimits(ret, ctl)
    /\ (SimRecording /\ LimitsOrdered(ctl)) =>
          /\ \A i \in 1..RawLen : InLimits(Raw("control")[i], ctl)
          /\ sim.pc = "done" =>
                \A i \in 1..Len(sim.series["control"]) :
                    InLimits(sim.series["control"][i], ctl)

\* A PID update whose raw output lay above output_max and was clamped to it.
C1_Witness ==
    /\ IsUpdate /\ ~raised /\ ctl.kind = "pid" /\ LimitsOrdered(ctl)
    /\ ret = ctl.output_max
    /\ ctl.ti = Zero
    /\ gt(pid_output(ctl.kp, ctl.p_term, ctl.i_term, ctl.d_term),
          ctl.output_max)

EulerStep(T, u) ==
    add(T, mul(div(sub(clamp(u, neg(plant.cooling_power), plant.heating_power),
                       mul(plant.heat_loss_coef, sub(T, plant.ambient_temp))),
                   plant.heat_capacity),
               time_step))

\* C3: in the raw series every recorded temperature is the plant state before
\* that step's update: temperature[0] is ambient, and each next temperature
\* (and the plant's current one) is the Euler step from the recorded one.
C3_SampleThenAdvance ==
    (SimRecording /\ RawLen >= 1) =>
        LET T == Raw("temperature")
            U == Raw("control")
        IN  /\ T[1] = plant.ambient_temp
            /\ \A k \in 1..(RawLen - 1) : T[k + 1] = EulerStep(T[k], U[k])
            /\ plant.temperature = EulerStep(T[RawLen], U[RawLen])

\* A run that recorded three samples with the plant moving.
C3_Witness ==
    /\ sim.pc = "done" /\ RawLen >= 3
    /\ sim.raw["temperature"][2] # sim.raw["temperature"][1]
    /\ sim.raw["temperature"][3] # sim.raw["temperature"][2]

\* C4: the raw time series is time[k] = k*dt, across stage boundaries; the
\* returned series starts at 0 and never decreases.
C4_TimeSeries ==
    SimRecording =>
        /\ \A i \in 1..RawLen : Raw("time")[i] = mul(I(i - 1), time_step)
        /\ sim.pc = "done" =>
              LET t == sim.series["time"]
              IN  /\ Len(t) >= 1 => t[1] = Zero
                  /\ \A i \in 1..(Len(t) - 1) : le(t[i], t[i + 1])

\* A finished run whose samples span at least three stages.
C4_Witness ==
    /\ sim.pc = "done" /\ time_step = Half
    /\ \E i, j \in 1..RawLen :
          /\ sim.raw["setpoint"][i] = call.params.initial_temp
          /\ sim.raw["setpoint"][j] = call.params.hold_temp
          /\ gt(sim.raw["time"][j], sim.raw["time"][i])

\* floor(x) of a rational.
Floor(x) == x[1] \div x[2]

\* C5: the eight returned series have one length; the raw length is the
\* number of loop iterations executed, at most floor(total_duration/dt) + 1
\* (for a total duration that is not negative).
C5_SeriesLengths ==
    sim.pc = "done" =>
        /\ \A s \in SeriesNames : Len(sim.series[s]) = Len(sim.series["time"])
        /\ \A s \in SeriesNames : Len(sim.raw[s]) = sim.iterations
        /\ ge(sim.total_time, Zero) =>
              sim.iterations <= Floor(div(sim.total_time, time_step)) + 1

\* A finished run that recorded fewer samples than it allocated.
C5_Witness ==
    /\ sim.pc = "done" /\ sim.iterations >= 3
    /\ sim.iterations < sim.num_steps

\* The output position DsPick filled last.
LastPos == ds.k - 1

\* round(x) for x = n/d with d odd (no ties).
RoundDiv(n, d) == (2 * n + d) \div (2 * d)

C7_KpZeroOutputZero ==
    (IsUpdate /\ ctl.kind = "pid" /\ ctl.kp = Zero /\ LimitsAroundZero(ctl)) =>
        (~raised /\ ret = Zero)

\* Kp = 0 with a non-zero error, integral and derivative term behind it.
C7_Witness ==
    /\ IsUpdate /\ ctl.kind = "pid" /\ ctl.kp = Zero /\ LimitsAroundZero(ctl)
    /\ ctl.p_term # Zero /\ ctl.i_term # Zero /\ ctl.d_term # Zero
    /\ call.before.integral # Zero
    /\ ret = Zero

\* A bound on |error| and on the filtered error derivative in the test.
ErrorBound == DriveSetpoint
DerivativeBound == div(ErrorBound, Half)

\* What back-calculation permits: the integral that makes the raw output
\* equal output_max for the current P and D terms.
PermittedIntegral(c) ==
    mul(c.ti, sub(sub(div(c.output_max, c.kp), c.p_term), c.d_term))

IntegralBound(c) ==
    mul(c.ti, add(add(div(c.output_max, c.kp), ErrorBound),
                  mul(c.td, DerivativeBound)))

C9_EulerUpdate ==
    call.op = "plant_update" =>
        LET m == call.before
            u == call.control_output
            expected ==
                add(m.temperature,
                    mul(div(sub(clamp(u, neg(m.cooling_power), m.heating_power),
                                mul(m.heat_loss_coef,
                                    sub(m.temperature, m.ambient_temp))),
                            m.heat_capacity),
                        call.dt))
        IN  /\ plant.temperature = expected
            /\ ret = plant.temperature
            /\ (m.temperature = m.ambient_temp /\ u = Zero) =>
                  plant.temperature = m.ambient_temp

\* A second zero-power step of a plant resting at ambient.
C9_Witness ==
    /\ call.op = "plant_update" /\ ncalls = MaxCalls
    /\ call.control_output = Zero /\ call.dt # Zero
    /\ call.before.temperature = call.before.ambient_temp
    /\ plant.temperature = plant.ambient_temp

\* No rule of the rule base has non-zero activation.
NoRuleFires(e_sets, ce_sets) ==
    \A k \in 1..Len(rules) :
        pymin(e_sets[rules[k][1]], ce_sets[rules[k][2]]) = Zero

\* C10: when no rule fires, the aggregated set is all zero, defuzzify returns
\* 0 and FuzzyController.update returns 0 (limits around zero).
C10_NoRuleZeroOutput ==
    (IsUpdate /\ ctl.kind = "fuzzy") =>
        LET error == sub(call.setpoint, call.measurement)
            ce == IF gt(call.dt, Zero)
                  THEN div(sub(error, call.before.prev_error), call.dt)
                  ELSE Zero
            e_sets == fuzzify_error(error)
            ce_sets == fuzzify_ce(ce)
            aggregated == infer(e_sets, ce_sets)
        IN  NoRuleFires(e_sets, ce_sets) =>
                /\ \A i \in 1..200 : aggregated[i] = Zero
                /\ defuzzify(aggregated) = Zero
                /\ ~raised
                /\ LimitsAroundZero(ctl) => ret = Zero

\* An update with error >= 100, outside every error set.
C10_Witness ==
    /\ IsUpdate /\ ctl.kind = "fuzzy" /\ LimitsAroundZero(ctl)
    /\ ge(sub(call.setpoint, call.measurement), I(100))
    /\ NoRuleFires(fuzzify_error(sub(call.setpoint, call.measurement)),
                   fuzzify_ce(Zero))
    /\ ret = Zero

\* C11: simulate has no error path: for any protocol parameters, malformed
\* durations included, it raises nothing and runs at most
\* floor(total_duration/dt) + 1 loop iterations.
C11_NoErrorPath ==
    (call.op = "simulate" /\ LimitsAroundZero(ctl)) =>
        /\ ~raised
        /\ sim.pc # "value_error"
        /\ SimRecording =>
              sim.iterations <= Floor(div(sim.total_time, time_step)) + 1

\* A newly constructed controller with the configuration of c.
Fresh(c) ==
    IF c.kind = "pid"
    THEN PIDController(c.kp, c.ti, c.td, c.output_min, c.output_max)
    ELSE FuzzyController(c.output_min, c.output_max)

\* C12: after reset() the controller is in its freshly constructed state
\* (PID: integral, prev_error, prev_derivative and the three terms are 0;
\* fuzzy: prev_error is 0), whatever updates came before, so every update
\* that follows returns what a new controller with that configuration returns.
C12_ResetIsFresh ==
    call.op = "reset" =>
        /\ ctl = Fresh(ctl)
        /\ ctl.prev_error = Zero
        /\ ctl.kind = "pid" =>
              /\ ctl.integral = Zero /\ ctl.prev_derivative = Zero
              /\ ctl.p_term = Zero /\ ctl.i_term = Zero /\ ctl.d_term = Zero
        /\ \A setpoint \in SetpointSet(ctl), measurement \in MeasurementSet(ctl),
              dt \in DtSet :
              (ctl.kind = "pid") =>
                  Ctl_update(ctl, setpoint, measurement, dt)
                      = Ctl_update(Fresh(ctl), setpoint, measurement, dt)

\* A reset of a PID controller that carried integral, error and filter state.
C12_Witness ==
    /\ call.op = "reset" /\ ctl.kind = "pid"
    /\ call.before.integral # Zero
    /\ call.before.prev_error # Zero
    /\ call.before.prev_derivative # Zero
    /\ call.before.d_term # Zero
    /\ ctl.integral = Zero /\ ctl.prev_derivative = Zero

\* C13: what simulate returns does not depend on state left by earlier
\* activity: it starts from a reset plant and controller, and a second call
\* with the same arguments returns the series the first call returned.
C13_RerunIdentical ==
    /\ (sim.pc = "for" /\ sim.k = 1) =>
          /\ ctl = Fresh(ctl)
          /\ plant.temperature = plant.ambient_temp
    /\ (sim.pc = "done" /\ sim.run = 2) =>
          /\ sim.series = sim.first
          /\ sim.raw = sim.first

\* A second run finished, with the controller output moving during the run.
C13_Witness ==
    /\ sim.pc = "done" /\ sim.run = 2
    /\ RawLen >= 3
    /\ sim.series = sim.first
    /\ \E i, j \in 1..RawLen : sim.raw["control"][i] # sim.raw["control"][j]

\* The raw series of a run r satisfy what the series of a run alone satisfy:
\* the first temperature is ambient and each next one is the Euler step of
\* the one before under the run's own control output.
AloneSeries(r) ==
    r.pc \in {"for", "while", "done"} =>
        LET n == IF r.pc = "done" THEN Len(r.raw["time"]) ELSE r.step
            T == IF r.pc = "done" THEN r.raw["temperature"] ELSE r.series["temperature"]
            U == IF r.pc = "done" THEN r.raw["control"] ELSE r.series["control"]
        IN  /\ n >= 1 => T[1] = plant.ambient_temp
            /\ \A k \in 1..(n - 1) : T[k + 1] = EulerStep(T[k], U[k])

\* C14: a PID run and a fuzzy run on the same protocol share no mutable
\* state, so under any interleaving of their steps each run's series are the
\* series of that run alone.
C14_RunsIndependent == AloneSeries(sim) /\ AloneSeries(other.sim)

\* C15: after every PID update with Ti > 0 and Kp # 0 the stored terms
\* reproduce the returned output, Kp * (p_term + i_term + d_term) = output,
\* and integral = i_term * Ti, also when the output was clamped.
C15_TermsConsistent ==
    (IsUpdate /\ ctl.kind = "pid" /\ ~raised /\ gt(ctl.ti, Zero) /\ ctl.kp # Zero) =>
        /\ mul(ctl.kp, add(add(ctl.p_term, ctl.i_term), ctl.d_term)) = ret
        /\ ctl.integral = mul(ctl.i_term, ctl.ti)

\* A clamped update: the stored integral is not the accumulated one.
C15_Witness ==
    /\ IsUpdate /\ ctl.kind = "pid" /\ ~raised
    /\ gt(ctl.ti, Zero) /\ ctl.kp # Zero /\ ctl.ti # One
    /\ ret = ctl.output_max
    /\ ctl.d_term # Zero
    /\ ctl.integral #
         add(call.before.integral,
             mul(sub(call.setpoint, call.measurement), call.dt))

\* C16: with Kp = 0 the anti-windup step is skipped for every Ti and every
\* configured pair of output limits: the update does not divide by Kp, raises
\* no exception, and leaves integral = integral before + error * dt.
C16_KpZeroSkipsAntiWindup ==
    (IsUpdate /\ ctl.kind = "pid" /\ call.before.kp = Zero) =>
        /\ ~raised
        /\ ctl.integral =
             add(call.before.integral,
                 mul(sub(call.setpoint, call.measurement), call.dt))

\* The protocol of the running simulate has only positive durations.
PositiveDurations ==
    \A k \in 1..Len(sim.protocol) : gt(sim.protocol[k][2], Zero)

\* C17: each recorded sample carries the setpoint of the stage whose window
\* [E(k-1), E(k)) contains the sample's time, E(k) being the sum of the first
\* k stage durations, also when durations are no multiples of the time step.
C17_StageWindows ==
    (SimRecording /\ PositiveDurations) =>
        \A i \in 1..RawLen :
            \E k \in 1..Len(sim.protocol) :
                /\ le(sum_durations(sim.protocol, k - 1), Raw("time")[i])
                /\ lt(Raw("time")[i], sum_durations(sim.protocol, k))
                /\ Raw("setpoint")[i] = sim.protocol[k][1]

\* The rule table as the specification states it: the output label for each
\* pair of error label and change-of-error label.
RuleTable ==
    [PB |-> [P |-> "PB", Z |-> "PB", N |-> "PS"],
     PS |-> [P |-> "PB", Z |-> "PS", N |-> "Z"],
     Z  |-> [P |-> "PS", Z |-> "Z",  N |-> "NS"],
     NS |-> [P |-> "Z",  Z |-> "NS", N |-> "NB"],
     NB |-> [P |-> "NS", Z |-> "NB", N |-> "NB"]]

ErrorLabels == {"NB", "NS", "Z", "PS", "PB"}
ChangeLabels == {"N", "Z", "P"}

\* The largest element of a finite non-empty set of values.
MaxOf(S) == CHOOSE x \in S : \A y \in S : ge(x, y)

\* The error and the change of error the recorded fuzzy update worked on.
UpdateError == sub(call.setpoint, call.measurement)
UpdateChange ==
    IF gt(call.dt, Zero)
    THEN div(sub(UpdateError, call.before.prev_error), call.dt)
    ELSE Zero

\* The label pairs whose rule fires, with activation min(mu_e, mu_ce).
Activation(e_sets, ce_sets, el, cl) == pymin(e_sets[el], ce_sets[cl])
Firing(e_sets, ce_sets) ==
    {lc \in ErrorLabels \X ChangeLabels :
        Activation(e_sets, ce_sets, lc[1], lc[2]) # Zero}

\* C18: the rule base is the 15-rule table, one rule per label pair; a rule's
\* activation is min(mu_e, mu_ce), and the aggregated set is, point by point,
\* the max over the rules with non-zero activation of
\* min(activation, output membership).
C18_RuleTable ==
    /\ Len(rules) = 15
    /\ \A el \in ErrorLabels, cl \in ChangeLabels :
          \E k \in 1..Len(rules) :
              /\ rules[k] = <<el, cl, RuleTable[el][cl]>>
              /\ \A j \in 1..Len(rules) :
                    (rules[j][1] = el /\ rules[j][2] = cl) => j = k
    /\ (IsUpdate /\ ctl.kind = "fuzzy") =>
          LET e_sets == fuzzify_error(UpdateError)
              ce_sets == fuzzify_ce(UpdateChange)
              aggregated == infer(e_sets, ce_sets)
              firing == Firing(e_sets, ce_sets)
          IN  \A i \in 1..200 :
                aggregated[i] =
                  MaxOf({Zero} \cup
                        {pymin(Activation(e_sets, ce_sets, lc[1], lc[2]),
                               output_sets(u_universe[i])[RuleTable[lc[1]][lc[2]]]) :
                           lc \in firing})

\* A fuzzy update in which several rules with different output labels fire,
\* at least one of them with an activation strictly between 0 and 1.
C18_Witness ==
    /\ IsUpdate /\ ctl.kind = "fuzzy"
    /\ LET e_sets == fuzzify_error(UpdateError)
           ce_sets == fuzzify_ce(UpdateChange)
           firing == Firing(e_sets, ce_sets)
       IN  /\ Cardinality(firing) >= 3
           /\ \E a \in firing, b \in firing :
                 RuleTable[a[1]][a[2]] # RuleTable[b[1]][b[2]]
           /\ \E a \in firing :
                 /\ lt(Activation(e_sets, ce_sets, a[1], a[2]), One)
                 /\ a = <<"Z", "Z">>

\* The quantities of the claimed PID formula, from the arguments of the
\* recorded update and the controller as it was before the call.
AccumulatedIntegral == add(call.before.integral, mul(UpdateError, call.dt))
FormulaITerm ==
    IF gt(call.before.ti, Zero)
    THEN div(AccumulatedIntegral, call.before.ti)
    ELSE Zero
FormulaDerivative ==
    add(mul(Half, div(sub(UpdateError, call.before.prev_error), call.dt)),
        mul(Half, call.before.prev_derivative))
FormulaDTerm ==
    IF gt(call.dt, Zero) THEN mul(call.before.td, FormulaDerivative) ELSE Zero
FormulaOutput ==
    mul(call.before.kp, add(add(UpdateError, FormulaITerm), FormulaDTerm))

C20_NonPositiveDt ==
    (IsUpdate /\ ~gt(call.dt, Zero) /\ ~raised) =>
        /\ ctl.kind = "pid" => ctl.d_term = Zero
        /\ ctl.kind = "fuzzy" =>
              ret = pymax(ctl.output_min,
                          pymin(mul(defuzzify(infer(fuzzify_error(UpdateError),
                                                    fuzzify_ce(Zero))),
                                    ctl.output_max),
                                ctl.output_max))
        /\ InLimits(ret, ctl)
        /\ ctl.prev_error = UpdateError

\* A PID update with negative dt after one that left a derivative behind.
C20_Witness ==
    /\ IsUpdate /\ ctl.kind = "pid" /\ ~raised
    /\ lt(call.dt, Zero)
    /\ ctl.td # Zero
    /\ call.before.prev_derivative # Zero
    /\ call.before.d_term # Zero
    /\ call.before.prev_error # UpdateError
    /\ ctl.d_term = Zero
    /\ ctl.prev_error = UpdateError

\* What every recorded sample satisfies on its own.
SampleRecord ==
    SimRecording =>
        \A i \in 1..RawLen :
            /\ Raw("error")[i] = sub(Raw("setpoint")[i], Raw("temperature")[i])
            /\ ctl.kind = "pid" => Raw("p_term")[i] = Raw("error")[i]
            /\ ctl.kind = "fuzzy" =>
                  /\ Raw("p_term")[i] = Zero
                  /\ Raw("i_term")[i] = Zero
                  /\ Raw("d_term")[i] = Zero

\* What a loop iteration that records sample k writes, in terms of the
\* controller and the plant as they were when the iteration began.
SampleStep ==
    (sim.pc = "while" /\ sim'.pc = "while" /\ sim'.step = sim.step + 1) =>
        LET k == sim'.step
            r == Ctl_update(ctl, sim'.series["setpoint"][k],
                            sim'.series["temperature"][k], time_step)
        IN  /\ sim'.series["temperature"][k] = plant.temperature
            /\ sim'.series["control"][k] = r.out
            /\ ctl' = r.c
            /\ ctl.kind = "pid" =>
                  /\ sim'.series["p_term"][k] = ctl'.p_term
                  /\ sim'.series["i_term"][k] = ctl'.i_term
                  /\ sim'.series["d_term"][k] = ctl'.d_term

\* C21: for every recorded sample k, error[k] = setpoint[k] - temperature[k]
\* with the temperature read before the step's plant update, control[k] is
\* the controller output for exactly that setpoint and temperature, and the
\* three component entries are the controller's components after that
\* update: p_term[k] = error[k] with the PID controller, all three 0 with the
\* fuzzy controller.
C21_SampleRecord == [](SampleRecord) /\ [][SampleStep]_vars

\* A finished PID run whose recorded components are not all zero and vary.
C21_Witness ==
    /\ sim.pc = "done" /\ ctl.kind = "pid" /\ RawLen >= 3
    /\ \E i \in 1..RawLen :
          /\ Raw("i_term")[i] # Zero
          /\ Raw("d_term")[i] # Zero
          /\ Raw("p_term")[i] # Raw("i_term")[i]
          /\ Raw("error")[i] # Zero
          /\ Raw("error")[i] = sub(Raw("setpoint")[i], Raw("temperature")[i])

\* C22: for a <= b <= c <= d, trapmf(x, a, b, c, d) is 0 for x <= a or
\* x >= d (also at a degenerate shoulder a = b or c = d), otherwise 1 for
\* b <= x <= c, (x-a)/(b-a) for a < x < b and (d-x)/(d-c) for c < x < d; the
\* result lies in [0, 1].
C22_Trapmf ==
    call.op = "trapmf" =>
        LET outside == le(call.x, call.a) \/ ge(call.x, call.d)
        IN  /\ outside => ret = Zero
            /\ (~outside /\ le(call.b, call.x) /\ le(call.x, call.c)) => ret = One
            /\ (lt(call.a, call.x) /\ lt(call.x, call.b)) =>
                  ret = div(sub(call.x, call.a), sub(call.b, call.a))
            /\ (lt(call.c, call.x) /\ lt(call.x, call.d)) =>
                  ret = div(sub(call.d, call.x), sub(call.d, call.c))
            /\ le(Zero, ret) /\ le(ret, One)

\* The specification's example: x on the degenerate left shoulder of NB.
C22_Witness ==
    /\ call.op = "trapmf"
    /\ call.x = I(-100)
    /\ <<call.a, call.b, call.c, call.d>> = <<I(-100), I(-100), I(-60), I(-40)>>
    /\ ret = Zero

\* |x| for a rational x, and x strictly inside (-100, 100).
RatAbs(x) == <<Abs(x[1]), x[2]>>
InsideUniverse(x) == lt(I(-100), x) /\ lt(x, I(100))

\* Rule coverage at the recorded fuzzy update: some rule fires exactly when
\* the error and the change of error both lie strictly inside (-100, 100),
\* and without a firing rule the update returns 0 (limits around zero).
RuleCoverage ==
    (IsUpdate /\ ctl.kind = "fuzzy") =>
        LET e_sets == fuzzify_error(UpdateError)
            ce_sets == fuzzify_ce(UpdateChange)
        IN  /\ ~NoRuleFires(e_sets, ce_sets) <=>
                  (InsideUniverse(UpdateError) /\ InsideUniverse(UpdateChange))
            /\ (NoRuleFires(e_sets, ce_sets) /\ LimitsAroundZero(ctl)) =>
                  ret = Zero

\* C23 (as stated): rule coverage, and the zero output on the first update
\* after any setpoint change of magnitude >= 100*dt.
C23_AnySetpointChange ==
    /\ [](RuleCoverage)
    /\ [][(/\ call.op = "update" /\ call'.op = "update"
           /\ ctl.kind = "fuzzy" /\ LimitsAroundZero(ctl)
           /\ ncalls' = ncalls + 1
           /\ gt(call'.dt, Zero)
           /\ ge(RatAbs(sub(call'.setpoint, call.setpoint)),
                 mul(I(100), call'.dt)))
          => ret' = Zero]_vars

\* C23: some rule fires exactly when the error and the change of error both
\* lie strictly inside (-100, 100); otherwise the update returns the zero
\* output; this includes every update with dt > 0 whose error differs from
\* the previous error by 100*dt or more.
C23_RuleCoverage ==
    /\ RuleCoverage
    /\ (/\ IsUpdate /\ ctl.kind = "fuzzy" /\ gt(call.dt, Zero)
        /\ ge(RatAbs(sub(UpdateError, call.before.prev_error)),
              mul(I(100), call.dt))) =>
          /\ NoRuleFires(fuzzify_error(UpdateError), fuzzify_ce(UpdateChange))
          /\ LimitsAroundZero(ctl) => ret = Zero

\* An update whose error is inside (-100, 100) and fires error sets, while
\* the change of error is 100 or more: no rule fires, the output is 0.
C23_Witness ==
    /\ IsUpdate /\ ctl.kind = "fuzzy" /\ LimitsAroundZero(ctl)
    /\ gt(call.dt, Zero)
    /\ InsideUniverse(UpdateError)
    /\ fuzzify_error(UpdateError)["PB"] = One
    /\ ge(UpdateChange, I(100))
    /\ ret = Zero

\* A raw time series of the given length: strictly increasing, entry i
\* (1-based) standing for the time of raw sample i - 1.
RawTimes(len) == np_array([i \in 1..len |-> i - 1])

\* C24: when the raw length L exceeds 5000 the selected raw indices are
\* strictly increasing, the first is 0 and the last is L-1, so the
\* downsampled time series is strictly increasing and holds the first and
\* the last raw sample; when L <= 5000 a series is returned unchanged.
C24_EndpointsAndOrder ==
    /\ (ds.pc = "pick" /\ ds.k = 1) => ds.index = 0
    /\ (ds.pc = "done" /\ ds.len > DOWNSAMPLE_THRESHOLD) =>
          /\ ds.index = ds.len - 1
          /\ \E out \in {_downsample(RawTimes(ds.len), DOWNSAMPLE_THRESHOLD)} :
                /\ Len(out) = DOWNSAMPLE_THRESHOLD
                /\ out[1] = 0
                /\ out[DOWNSAMPLE_THRESHOLD] = ds.len - 1
                /\ \A k \in 1..(DOWNSAMPLE_THRESHOLD - 1) : out[k] < out[k + 1]
    /\ (ds.pc = "done" /\ ds.len <= DOWNSAMPLE_THRESHOLD) =>
          /\ ds.out_len = ds.len
          /\ _downsample(RawTimes(ds.len), DOWNSAMPLE_THRESHOLD) = RawTimes(ds.len)

\* A finished downsampling of a raw series almost twice the threshold long:
\* the last pick is the last raw sample.
C24_Witness ==
    /\ ds.pc = "done"
    /\ ds.len = 2 * DOWNSAMPLE_THRESHOLD - 1
    /\ ds.out_len = DOWNSAMPLE_THRESHOLD
    /\ ds.index = ds.len - 1
    /\ ds.sample["time"] = RawSample("time", ds.len - 1)

====
